---- MODULE Spec2Model ----
(***************************************************************************)
(* Model of src/src/AdvancedCuckooFilter.js.  The file holds two classes:  *)
(*   - the fixed-capacity filter (positional constructor; insert, lookup,  *)
(*     remove, clear), lines 7-344, modelled by the variable fx;           *)
(*   - the resizable filter (options constructor; insert, contains,        *)
(*     delete, _resize, save/load), lines 351-583, modelled by cf.         *)
(* Hash values are the ones the code computes for the concrete strings     *)
(* used as items; they are tabulated because SHA-256 and the string hash   *)
(* are not expressible with TLC's 32-bit integers.                         *)
(***************************************************************************)
EXTENDS Integers, Sequences, FiniteSets, TLC

VARIABLES
    fx,       \* the fixed-capacity filter object (its fields)
    fxHist,   \* history of the calls made on fx (observation only)
    cf,       \* the resizable filter object (its fields)
    cfHist,   \* history of the calls made on cf (observation only)
    disk,     \* the files written by save()
    probe,    \* arguments and results of the index functions (pure functions)
    calls     \* the async calls in flight on cf: where each one is suspended

vars == <<fx, fxHist, cf, cfHist, disk, probe, calls>>

(***************************************************************************)
(* Bounds of the model.                                                    *)
(***************************************************************************)
MaxCapacity == 2        \* largest capacity argument of the fixed filter
MaxBucketSize == 2      \* largest bucketSize argument (both classes)
MaxMaxKicks == 2        \* largest maxNumKicks / maxKicks argument
MaxInsertions == 3      \* fixed filter: successful inserts between clears
MaxKickTotal == 2       \* fixed filter: value of the kicks counter
MaxLogBuckets == 3      \* resizable filter: bucketCount <= 2^MaxLogBuckets
MaxStored == 3          \* resizable filter: fingerprints stored when insert is called
MaxPersisted == 2       \* resizable filter with its file: fingerprints stored at most
MaxProbeBuckets == 8    \* index functions: largest bucketCount tried
MaxProbeSize == 3       \* constructors: largest small size argument tried
MaxCalls == 2           \* async calls in flight on one resizable filter

(***************************************************************************)
(* 32-bit integer arithmetic of JavaScript.                                *)
(***************************************************************************)
MaxInt32 == 2147483647

\* The low 31 bits of a signed 32-bit integer (two's complement).
Low31(a) == IF a >= 0 THEN a ELSE (a + MaxInt32) + 1

RECURSIVE XorNat(_, _)
XorNat(a, b) ==
    IF a = 0 THEN b
    ELSE IF b = 0 THEN a
    ELSE (((a % 2) + (b % 2)) % 2) + 2 * XorNat(a \div 2, b \div 2)

RECURSIVE AndNat(_, _)
AndNat(a, b) ==
    IF a = 0 \/ b = 0 THEN 0
    ELSE ((a % 2) * (b % 2)) + 2 * AndNat(a \div 2, b \div 2)

RECURSIVE OrNat(_, _)
OrNat(a, b) ==
    IF a = 0 THEN b
    ELSE IF b = 0 THEN a
    ELSE (IF (a % 2) = 1 \/ (b % 2) = 1 THEN 1 ELSE 0) + 2 * OrNat(a \div 2, b \div 2)

\* a ^ b on signed 32-bit integers.
Xor32(a, b) ==
    LET low == XorNat(Low31(a), Low31(b))
    IN  IF (a < 0) # (b < 0) THEN (low - MaxInt32) - 1 ELSE low

\* a % n of JavaScript for n > 0: the remainder takes the sign of a
\* (a result of -0 addresses the same array element as 0).
JsRem(a, n) ==
    IF a >= 0 THEN a % n
    ELSE IF (a % n) = 0 THEN 0 ELSE (a % n) - n

(***************************************************************************)
(* The fixed-capacity filter (class at lines 7-344).                       *)
(***************************************************************************)
\* The items offered to the fixed-capacity filter (strings of src/test.js).
FxItems == {"apple", "banana", "item-1", "highload-0"}

\* null, the content of an empty slot.
Null == -1

\* The values null and undefined, which every public method tests for first.
Nullish == {"<null>", "<undefined>"}

\* Message of the Error insert throws for them, line 47.
NullishError == "Cannot insert null or undefined items"

\* _hash(str): the 32-bit string hash, for the strings the model uses.
Hash(str) ==
    CASE str = "apple" -> 93029210
      [] str = "banana" -> 1396355227
      [] str = "item-1" -> 1178662921
      [] str = "highload-0" -> 362661163
      [] str = "applefingerprint" -> 274355894
      [] str = "bananafingerprint" -> 1623820193
      [] str = "item-1fingerprint" -> 20311923
      [] str = "highload-0fingerprint" -> 480720167

\* item.toString() + 'fingerprint'
FingerprintKey(item) ==
    CASE item = "apple" -> "applefingerprint"
      [] item = "banana" -> "bananafingerprint"
      [] item = "item-1" -> "item-1fingerprint"
      [] item = "highload-0" -> "highload-0fingerprint"

\* _hash2(value): the FNV variant computed on doubles.  The result is a
\* non-negative integer below 2^56, given as hi * 2^32 + mid * 2^16 + lo.
Hash2(value) ==
    CASE value = 39 -> [hi |-> 3542271, mid |-> 36592, lo |-> 23676]
      [] value = 115 -> [hi |-> 1895257, mid |-> 29494, lo |-> 9751]
      [] value = 161 -> [hi |-> 1698639, mid |-> 64558, lo |-> 44797]
      [] value = 182 -> [hi |-> 1305404, mid |-> 63775, lo |-> 40890]

\* ToInt32 of a _hash2 result: its low 32 bits read as a signed integer.
ToInt32(h) ==
    IF h.mid >= 32768 THEN ((h.mid - 65536) * 65536) + h.lo
    ELSE (h.mid * 65536) + h.lo

\* _nextPowerOf2(n), for 1 <= n <= 2^30.
ShiftOr(n, k) == OrNat(n, n \div (2 ^ k))

\* _nextPowerOf2 without the n-- of its first line.
NextPowerOf2NoDecrement(n) ==
    ShiftOr(ShiftOr(ShiftOr(ShiftOr(ShiftOr(n, 1), 2), 4), 8), 16) + 1

NextPowerOf2(n) == ShiftOr(ShiftOr(ShiftOr(ShiftOr(ShiftOr(n - 1, 1), 2), 4), 8), 16) + 1

\* The object the constructor builds.
NewFixed(capacity, bucketSize, fingerprintBits, maxNumKicks) ==
    [capacity |-> NextPowerOf2(capacity),
     bucketSize |-> bucketSize,
     fingerprintBits |-> fingerprintBits,
     maxNumKicks |-> maxNumKicks,
     size |-> 0,
     fingerprintMask |-> (2 ^ fingerprintBits) - 1,
     buckets |-> [i \in 0 .. (NextPowerOf2(capacity) - 1) |->
                     [j \in 0 .. (bucketSize - 1) |-> Null]],
     insertions |-> 0,
     kicks |-> 0]

GenerateFingerprint(f, item) ==
    LET fingerprint == AndNat(Hash(FingerprintKey(item)), f.fingerprintMask)
    IN  IF fingerprint = 0 THEN 1 ELSE fingerprint

GetFirstBucketIndex(f, hash) == hash % f.capacity

GetSecondBucketIndex(f, i1, fingerprint) ==
    JsRem(Xor32(i1, ToInt32(Hash2(fingerprint))), f.capacity)

\* this.buckets[index] is an array (anything else is undefined, and reading
\* a slot of it throws a TypeError).
IsBucket(f, index) == index \in DOMAIN f.buckets

\* The first empty slot of a bucket, or Null when the bucket is full.
FreeSlot(f, index) ==
    IF \E i \in DOMAIN f.buckets[index] : f.buckets[index][i] = Null
    THEN CHOOSE i \in DOMAIN f.buckets[index] :
             /\ f.buckets[index][i] = Null
             /\ \A j \in DOMAIN f.buckets[index] : j < i => f.buckets[index][j] # Null
    ELSE Null

InsertIntoBucketOk(f, index) == FreeSlot(f, index) # Null

InsertIntoBucket(f, index, fingerprint) ==
    [f EXCEPT !.buckets[index][FreeSlot(f, index)] = fingerprint]

BucketContainsFingerprint(f, index, fingerprint) ==
    \E i \in DOMAIN f.buckets[index] : f.buckets[index][i] = fingerprint

\* _removeFromBucket: the first matching slot becomes null.
RemoveFromBucket(f, index, fingerprint) ==
    LET i == CHOOSE i \in DOMAIN f.buckets[index] :
                 /\ f.buckets[index][i] = fingerprint
                 /\ \A j \in DOMAIN f.buckets[index] :
                        j < i => f.buckets[index][j] # fingerprint
    IN  [f EXCEPT !.buckets[index][i] = Null]

\* The result of a call: the object after it and what the call returned
\* ("true", "false") or that it threw ("throw").
FxResult(f, result) == [f |-> f, result |-> result]

FxInserted(f) == [f EXCEPT !.size = @ + 1, !.insertions = @ + 1]

\* The kicking loop of insert, lines 76-100, from round n on.  The random
\* position of each round is any slot of the bucket.
RECURSIVE FxKick(_, _, _, _)
FxKick(f, currentIndex, currentFingerprint, n) ==
    IF n >= f.maxNumKicks THEN {FxResult(f, "false")}
    ELSE
      LET f1 == [f EXCEPT !.kicks = @ + 1]
      IN  IF ~IsBucket(f1, currentIndex) THEN {FxResult(f1, "throw")}
          ELSE UNION {
            LET oldFingerprint == f1.buckets[currentIndex][randPosition]
                f2 == [f1 EXCEPT !.buckets[currentIndex][randPosition] = currentFingerprint]
            IN  IF oldFingerprint = Null THEN {FxResult(f2, "throw")}
                ELSE
                  LET next == GetSecondBucketIndex(f2, currentIndex, oldFingerprint)
                  IN  IF ~IsBucket(f2, next) THEN {FxResult(f2, "throw")}
                      ELSE IF InsertIntoBucketOk(f2, next)
                      THEN {FxResult(FxInserted(InsertIntoBucket(f2, next, oldFingerprint)), "true")}
                      ELSE FxKick(f2, next, oldFingerprint, n + 1)
            : randPosition \in 0 .. (f1.bucketSize - 1) }

\* insert(item), lines 45-101, for an item that is neither null nor
\* undefined: every result the call can have.
FxInsert(f, item) ==
    LET fingerprint == GenerateFingerprint(f, item)
        i1 == GetFirstBucketIndex(f, Hash(item))
        i2 == GetSecondBucketIndex(f, i1, fingerprint)
    IN  IF item \in Nullish THEN {FxResult(f, NullishError)}
        ELSE IF InsertIntoBucketOk(f, i1)
        THEN {FxResult(FxInserted(InsertIntoBucket(f, i1, fingerprint)), "true")}
        ELSE IF ~IsBucket(f, i2) THEN {FxResult(f, "throw")}
        ELSE IF InsertIntoBucketOk(f, i2)
        THEN {FxResult(FxInserted(InsertIntoBucket(f, i2, fingerprint)), "true")}
        ELSE UNION {FxKick(f, currentIndex, fingerprint, 0) : currentIndex \in {i1, i2}}

\* lookup(item) without the test of lines 109-111: item.toString() of line
\* 276 throws a TypeError for null and undefined.
FxLookupNoNullCheck(f, item) ==
    LET fingerprint == GenerateFingerprint(f, item)
        i1 == GetFirstBucketIndex(f, Hash(item))
        i2 == GetSecondBucketIndex(f, i1, fingerprint)
    IN  IF item \in Nullish THEN "throw"
        ELSE IF BucketContainsFingerprint(f, i1, fingerprint) THEN "true"
        ELSE IF ~IsBucket(f, i2) THEN "throw"
        ELSE IF BucketContainsFingerprint(f, i2, fingerprint) THEN "true"
        ELSE "false"

\* lookup(item), lines 108-123: "true", "false" or "throw".
FxLookup(f, item) ==
    LET fingerprint == GenerateFingerprint(f, item)
        i1 == GetFirstBucketIndex(f, Hash(item))
        i2 == GetSecondBucketIndex(f, i1, fingerprint)
    IN  IF item \in Nullish THEN "false"
        ELSE IF BucketContainsFingerprint(f, i1, fingerprint) THEN "true"
        ELSE IF ~IsBucket(f, i2) THEN "throw"
        ELSE IF BucketContainsFingerprint(f, i2, fingerprint) THEN "true"
        ELSE "false"

\* remove(item) with the size update missing where the fingerprint is found
\* in the second bucket.
FxRemoveKeepsSize(f, item) ==
    LET fingerprint == GenerateFingerprint(f, item)
        i1 == GetFirstBucketIndex(f, Hash(item))
        i2 == GetSecondBucketIndex(f, i1, fingerprint)
    IN  IF item \in Nullish THEN [f |-> f, result |-> "false", from |-> Null]
        ELSE IF BucketContainsFingerprint(f, i1, fingerprint)
        THEN [f |-> [RemoveFromBucket(f, i1, fingerprint) EXCEPT !.size = @ - 1],
              result |-> "true", from |-> i1]
        ELSE IF ~IsBucket(f, i2) THEN [f |-> f, result |-> "throw", from |-> Null]
        ELSE IF BucketContainsFingerprint(f, i2, fingerprint)
        THEN [f |-> RemoveFromBucket(f, i2, fingerprint),
              result |-> "true", from |-> i2]
        ELSE [f |-> f, result |-> "false", from |-> Null]

\* remove(item), lines 130-152; from is the bucket the fingerprint left.
FxRemove(f, item) ==
    LET fingerprint == GenerateFingerprint(f, item)
        i1 == GetFirstBucketIndex(f, Hash(item))
        i2 == GetSecondBucketIndex(f, i1, fingerprint)
    IN  IF item \in Nullish THEN [f |-> f, result |-> "false", from |-> Null]
        ELSE IF BucketContainsFingerprint(f, i1, fingerprint)
        THEN [f |-> [RemoveFromBucket(f, i1, fingerprint) EXCEPT !.size = @ - 1],
              result |-> "true", from |-> i1]
        ELSE IF ~IsBucket(f, i2) THEN [f |-> f, result |-> "throw", from |-> Null]
        ELSE IF BucketContainsFingerprint(f, i2, fingerprint)
        THEN [f |-> [RemoveFromBucket(f, i2, fingerprint) EXCEPT !.size = @ - 1],
              result |-> "true", from |-> i2]
        ELSE [f |-> f, result |-> "false", from |-> Null]

\* clear(), lines 165-172.
FxClear(f) ==
    [f EXCEPT !.buckets = [i \in 0 .. (f.capacity - 1) |->
                              [j \in 0 .. (f.bucketSize - 1) |-> Null]],
              !.size = 0, !.insertions = 0, !.kicks = 0]

\* getLoadFactor() is size / (capacity * bucketSize); its two terms.
LoadNumerator(f) == f.size

LoadDenominator(f) == f.capacity * f.bucketSize

\* The candidate buckets of an item.
FxCandidates(f, item) ==
    {GetFirstBucketIndex(f, Hash(item)),
     GetSecondBucketIndex(f, GetFirstBucketIndex(f, Hash(item)), GenerateFingerprint(f, item))}

(***************************************************************************)
(* The resizable filter (class at lines 351-583).                          *)
(***************************************************************************)
\* The items offered to the resizable filter.
CfItems == {"apple", "orange", "item-27"}

\* _hash(data, seed): the first four bytes of the SHA-256 digest of the
\* 4-byte big-endian seed followed by data, for the strings the model uses
\* (the items with seed 0, the hex text of their fingerprints with seeds 0
\* and 1).
Digest(data, seed) ==
    CASE seed = 0 /\ data = "apple" -> <<66, 51, 193, 92>>
      [] seed = 0 /\ data = "orange" -> <<46, 66, 6, 93>>
      [] seed = 0 /\ data = "item-27" -> <<94, 218, 219, 170>>
      [] seed = 0 /\ data = "42" -> <<148, 116, 141, 127>>
      [] seed = 0 /\ data = "2e" -> <<249, 206, 77, 42>>
      [] seed = 0 /\ data = "5e" -> <<139, 144, 71, 223>>
      [] seed = 1 /\ data = "42" -> <<175, 18, 230, 71>>
      [] seed = 1 /\ data = "2e" -> <<136, 238, 62, 29>>
      [] seed = 1 /\ data = "5e" -> <<17, 94, 108, 168>>
      [] seed = 0 /\ data = "538f" -> <<83, 143, 253, 213>>
      [] seed = 1 /\ data = "538f" -> <<249, 179, 249, 78>>
      [] seed = 0 /\ data = "grape" -> <<122, 246, 57, 70>>
      [] seed = 0 /\ data = "7af6" -> <<78, 247, 57, 105>>
      [] seed = 1 /\ data = "7af6" -> <<151, 97, 250, 254>>

HexDigits == <<"0", "1", "2", "3", "4", "5", "6", "7", "8", "9", "a", "b", "c", "d", "e", "f">>

\* buffer.toString('hex')
RECURSIVE ToHex(_)
ToHex(bytes) ==
    IF bytes = <<>> THEN ""
    ELSE HexDigits[(Head(bytes) \div 16) + 1] \o HexDigits[(Head(bytes) % 16) + 1]
         \o ToHex(Tail(bytes))

\* Buffer.from(hex, 'hex'), for the hex text of fingerprints of bytes.
FromHex(hex, bytes) ==
    IF bytes = 1
    THEN CHOOSE b \in {<<v>> : v \in 0 .. 255} : ToHex(b) = hex
    ELSE CHOOSE b \in [1 .. bytes -> 0 .. 255] : ToHex(b) = hex

\* digest.readUInt32BE(0) % n, without leaving 32-bit arithmetic.
ReadUInt32Mod(d, n) ==
    (((((((d[1] % n) * 256 + d[2]) % n) * 256 + d[3]) % n) * 256) + d[4]) % n

\* ToInt32(digest.readUInt32BE(0)), the operand the ^ operator works on.
ReadUInt32AsInt32(d) ==
    (IF d[1] >= 128 THEN (d[1] - 256) * 16777216 ELSE d[1] * 16777216)
    + (d[2] * 65536) + (d[3] * 256) + d[4]

\* Array.from({ length: n }, () => []): n empty buckets, indexed from 0.
RECURSIVE EmptyBuckets(_)
EmptyBuckets(n) ==
    IF n = 1 THEN (0 :> <<>>) ELSE EmptyBuckets(n - 1) @@ ((n - 1) :> <<>>)

\* The object the constructor builds.
NewResizable(bucketCount, bucketSize, fingerprintSize, maxKicks) ==
    [bucketCount |-> bucketCount,
     bucketSize |-> bucketSize,
     fingerprintSize |-> fingerprintSize,
     maxKicks |-> maxKicks,
     buckets |-> EmptyBuckets(bucketCount)]

Fingerprint(c, item) == SubSeq(Digest(item, 0), 1, c.fingerprintSize)

Index(c, item) == ReadUInt32Mod(Digest(item, 0), c.bucketCount)

\* ((raw % n) + n) % n with raw = index ^ fpHash
AltIndexOf(index, fpHash, n) ==
    (JsRem(Xor32(index, fpHash), n) + n) % n

AltIndex(c, fp, index) ==
    AltIndexOf(index, ReadUInt32AsInt32(Digest(ToHex(fp), 1)), c.bucketCount)

\* _tryInsert with the bound test off by one: a full bucket takes one more.
TryInsertOkWhenFull(c, index) == Len(c.buckets[index]) <= c.bucketSize

\* _tryInsert(index, fp), lines 415-422: whether it pushes, and the push.
TryInsertOk(c, index) == Len(c.buckets[index]) < c.bucketSize

TryInsert(c, index, fp) == [c EXCEPT !.buckets[index] = Append(@, fp)]

\* contains(item), lines 455-463.
Contains(c, item) ==
    LET fp == Fingerprint(c, item)
        i1 == Index(c, item)
        i2 == AltIndex(c, fp, i1)
    IN  \/ \E k \in DOMAIN c.buckets[i1] : c.buckets[i1][k] = fp
        \/ \E k \in DOMAIN c.buckets[i2] : c.buckets[i2][k] = fp

\* contains(item) when this.buckets may be shorter than bucketCount (after
\* loadFromJSON): reading .some of an undefined bucket is a TypeError.
ContainsOutcome(c, item) ==
    LET fp == Fingerprint(c, item)
        i1 == Index(c, item)
        i2 == AltIndex(c, fp, i1)
    IN  IF i1 \notin DOMAIN c.buckets THEN "throw"
        ELSE IF \E k \in DOMAIN c.buckets[i1] : c.buckets[i1][k] = fp THEN "true"
        ELSE IF i2 \notin DOMAIN c.buckets THEN "throw"
        ELSE IF \E k \in DOMAIN c.buckets[i2] : c.buckets[i2][k] = fp THEN "true"
        ELSE "false"

\* bucket.findIndex(b => b.equals(fp)), counted from 1; 0 when absent.
FindIndex(bucket, fp) ==
    IF \E k \in DOMAIN bucket : bucket[k] = fp
    THEN CHOOSE k \in DOMAIN bucket :
             bucket[k] = fp /\ \A j \in DOMAIN bucket : j < k => bucket[j] # fp
    ELSE 0

\* bucket.splice(k, 1)
Splice(bucket, k) == SubSeq(bucket, 1, k - 1) \o SubSeq(bucket, k + 1, Len(bucket))

\* delete(item), lines 465-489, with autoPersist off.
Delete(c, item) ==
    LET fp == Fingerprint(c, item)
        i1 == Index(c, item)
        i2 == AltIndex(c, fp, i1)
        i == FindIndex(c.buckets[i1], fp)
        j == FindIndex(c.buckets[i2], fp)
    IN  IF i # 0
        THEN [c |-> [c EXCEPT !.buckets[i1] = Splice(@, i)], result |-> "true"]
        ELSE IF j # 0
        THEN [c |-> [c EXCEPT !.buckets[i2] = Splice(@, j)], result |-> "true"]
        ELSE [c |-> c, result |-> "false"]

\* delete(item) when this.buckets may be shorter than bucketCount.
DeleteOutcome(c, item) ==
    LET fp == Fingerprint(c, item)
        i1 == Index(c, item)
        i2 == AltIndex(c, fp, i1)
    IN  IF i1 \notin DOMAIN c.buckets THEN [c |-> c, result |-> "throw"]
        ELSE IF FindIndex(c.buckets[i1], fp) # 0 THEN Delete(c, item)
        ELSE IF i2 \notin DOMAIN c.buckets THEN [c |-> c, result |-> "throw"]
        ELSE Delete(c, item)

\* The fingerprints of all buckets, bucket after bucket.
RECURSIVE Flatten(_, _)
Flatten(buckets, i) ==
    IF i \notin DOMAIN buckets THEN <<>>
    ELSE buckets[i] \o Flatten(buckets, i + 1)

\* The loop of _resize, lines 495-503, from the k-th carried fingerprint on:
\* the object when the loop ends, and whether it ended by the throw.
RECURSIVE Reseat(_, _, _)
Reseat(c, fps, k) ==
    IF k > Len(fps) THEN [c |-> c, thrown |-> FALSE]
    ELSE
      LET i1 == Index(c, ToHex(fps[k]))
          i2 == AltIndex(c, fps[k], i1)
      IN  IF TryInsertOk(c, i1) THEN Reseat(TryInsert(c, i1, fps[k]), fps, k + 1)
          ELSE IF TryInsertOk(c, i2) THEN Reseat(TryInsert(c, i2, fps[k]), fps, k + 1)
          ELSE [c |-> c, thrown |-> TRUE]

\* _resize(), lines 491-504.
Resize(c) ==
    Reseat([c EXCEPT !.bucketCount = 2 * c.bucketCount,
                     !.buckets = EmptyBuckets(2 * c.bucketCount)],
           Flatten(c.buckets, 0), 1)

\* The kicking loop of insert, lines 438-448, from round n on: the object
\* after the loop and how it ended ("placed", "exhausted", or "throw" when
\* the bucket to evict from is empty and the evicted value is undefined, or
\* when this.buckets[index] is undefined in _tryInsert).
RECURSIVE Kick(_, _, _, _)
Kick(c, index, currentFp, n) ==
    IF n >= c.maxKicks THEN {[c |-> c, end |-> "exhausted"]}
    ELSE IF c.buckets[index] = <<>> THEN {[c |-> c, end |-> "throw"]}
    ELSE UNION {
        LET evicted == c.buckets[index][rand]
            c1 == [c EXCEPT !.buckets[index] =
                      SubSeq(@, 1, rand - 1) \o <<currentFp>> \o SubSeq(@, rand + 1, Len(@))]
            next == AltIndex(c1, evicted, index)
        IN  IF next \notin DOMAIN c1.buckets THEN {[c |-> c1, end |-> "throw"]}
            ELSE IF TryInsertOk(c1, next)
            THEN {[c |-> TryInsert(c1, next, evicted), end |-> "placed"]}
            ELSE Kick(c1, next, evicted, n + 1)
        : rand \in 1 .. Len(c.buckets[index]) }

\* What a call of insert gives: the object after it, "true" or "throw", and
\* the number of _resize calls it made ("capped": the call would grow the
\* filter beyond the bound of the model); entered is the object as it was
\* when the _resize that threw was entered (bucketCount 0 when none threw);
\* old is the array this.buckets that the first _resize of the call
\* replaced, as that _resize found it (<<>> when the call did not resize);
\* hooked lists the values of this.bucketCount at the executions of line
\* 451, which hands each to hooks.onResize when that hook is registered.
CfResult(c, result, resizes) ==
    [c |-> c, result |-> result, resizes |-> resizes, entered |-> [bucketCount |-> 0],
     old |-> <<>>, hooked |-> <<>>]

\* insert(item), lines 424-453, with autoPersist off; resizes counts the
\* _resize calls already made by the enclosing calls of insert.
RECURSIVE Insert(_, _, _)
Insert(c, item, resizes) ==
    LET fp == Fingerprint(c, item)
        i1 == Index(c, item)
        i2 == AltIndex(c, fp, i1)
    IN  IF i1 \notin DOMAIN c.buckets THEN {CfResult(c, "throw", resizes)}
        ELSE IF TryInsertOk(c, i1) THEN {CfResult(TryInsert(c, i1, fp), "true", resizes)}
        ELSE IF i2 \notin DOMAIN c.buckets THEN {CfResult(c, "throw", resizes)}
        ELSE IF TryInsertOk(c, i2) THEN {CfResult(TryInsert(c, i2, fp), "true", resizes)}
        ELSE UNION {
            IF k.end = "placed" THEN {CfResult(k.c, "true", resizes)}
            ELSE IF k.end = "throw" THEN {CfResult(k.c, "throw", resizes)}
            ELSE IF 2 * k.c.bucketCount > 2 ^ MaxLogBuckets
            THEN {CfResult(k.c, "capped", resizes)}
            ELSE IF Resize(k.c).thrown
            THEN {[CfResult(Resize(k.c).c, "throw", resizes + 1) EXCEPT
                      !.entered = k.c, !.old = k.c.buckets]}
            ELSE {[r EXCEPT !.old = k.c.buckets,
                            !.hooked = <<Resize(k.c).c.bucketCount>> \o @] :
                     r \in Insert(Resize(k.c).c, item, resizes + 1)}
            : k \in UNION {Kick(c, index, fp, 0) : index \in {i1, i2}} }

\* stats().items and stats().capacity, lines 506-516; loadFactor is their
\* quotient.
StatsItems(c) == Len(Flatten(c.buckets, 0))

StatsCapacity(c) == c.bucketCount * c.bucketSize


\* saveToJSON(filePath), lines 550-555: the parsed content of the file, one
\* list of hex texts per bucket.
SaveToJSON(c) ==
    [i \in 1 .. Cardinality(DOMAIN c.buckets) |->
        [k \in 1 .. Len(c.buckets[i - 1]) |-> ToHex(c.buckets[i - 1][k])]]

\* data.map(bucket => bucket.map(hex => Buffer.from(hex, 'hex'))) for the
\* first n buckets of the file.
RECURSIVE BucketsFromJSON(_, _, _)
BucketsFromJSON(data, n, bytes) ==
    LET bucket == [k \in 1 .. Len(data[n]) |-> FromHex(data[n][k], bytes)]
    IN  IF n = 1 THEN (0 :> bucket)
        ELSE BucketsFromJSON(data, n - 1, bytes) @@ ((n - 1) :> bucket)

\* loadFromJSON(filePath), lines 557-562: buckets is replaced, nothing else.
LoadFromJSON(c, data) ==
    [c EXCEPT !.buckets = BucketsFromJSON(data, Len(data), c.fingerprintSize)]

\* saveToParquet(filePath), lines 518-530: one row per stored fingerprint.
SaveToParquet(c) == Flatten(c.buckets, 0)

\* loadFromParquet(filePath), lines 532-548, from the k-th row on: the
\* object when the loop ends and "true", "throw" (from _resize, or from
\* _tryInsert when this.buckets[index] is undefined) or "capped"
\* (the load would grow the filter beyond the bound of the model).
RECURSIVE LoadFromParquet(_, _, _)
LoadFromParquet(c, rows, k) ==
    IF k > Len(rows) THEN [c |-> c, result |-> "true"]
    ELSE
      LET fp == rows[k]
          i1 == Index(c, ToHex(fp))
          i2 == AltIndex(c, fp, i1)
          r == Resize(c)
          i1_new == Index(r.c, ToHex(fp))
          i2_new == AltIndex(r.c, fp, i1_new)
      IN  IF i1 \notin DOMAIN c.buckets THEN [c |-> c, result |-> "throw"]
          ELSE IF TryInsertOk(c, i1) THEN LoadFromParquet(TryInsert(c, i1, fp), rows, k + 1)
          ELSE IF i2 \notin DOMAIN c.buckets THEN [c |-> c, result |-> "throw"]
          ELSE IF TryInsertOk(c, i2) THEN LoadFromParquet(TryInsert(c, i2, fp), rows, k + 1)
          ELSE IF 2 * c.bucketCount > 2 ^ MaxLogBuckets THEN [c |-> c, result |-> "capped"]
          ELSE IF r.thrown THEN [c |-> r.c, result |-> "throw"]
          ELSE IF TryInsertOk(r.c, i1_new)
          THEN LoadFromParquet(TryInsert(r.c, i1_new, fp), rows, k + 1)
          ELSE IF TryInsertOk(r.c, i2_new)
          THEN LoadFromParquet(TryInsert(r.c, i2_new, fp), rows, k + 1)
          ELSE LoadFromParquet(r.c, rows, k + 1)

\* save(filePath), lines 564-572, for a path ending in .json or .parquet:
\* the file it leaves.
Save(c, format) ==
    [format |-> format,
     content |-> IF format = "json" THEN SaveToJSON(c) ELSE SaveToParquet(c)]

\* load(filePath), lines 574-582, of a file written by save.
Load(c, file) ==
    IF file.format = "json"
    THEN [c |-> LoadFromJSON(c, file.content), result |-> "true"]
    ELSE LoadFromParquet(c, file.content, 1)

\* The records a load reads from a file: the rows of a Parquet file; a
\* JSON file is read and parsed as a whole (lines 558).
Records(file) == IF file.format = "json" THEN 1 ELSE Len(file.content)

\* load(filePath) when reading fails after `read` records (an I/O or
\* decoding error from readFile, JSON.parse, openFile, cursor.next or
\* close): the Parquet rows read so far have been placed, a JSON file has
\* changed nothing.
LoadFailing(c, file, read) ==
    IF file.format = "json"
    THEN [c |-> c, result |-> "throw"]
    ELSE [c |-> LoadFromParquet(c, SubSeq(file.content, 1, read), 1).c,
          result |-> IF LoadFromParquet(c, SubSeq(file.content, 1, read), 1).result = "capped"
                     THEN "capped" ELSE "throw"]

(***************************************************************************)
(* The fixed-capacity filter as a state machine.                           *)
(*   fxHist.members: the items X for which insert(X) returned true and,    *)
(*     since then, clear was not called and no remove call took a          *)
(*     fingerprint equal to X's out of one of X's candidate buckets;       *)
(*   fxHist.net: inserts that returned true minus removes that returned    *)
(*     true, since construction or the last clear;                         *)
(*   fxHist.last: the last call and its result.                            *)
(***************************************************************************)
FxCall(op, result) == [op |-> op, result |-> result]

FxIdle == [members |-> {}, net |-> 0, last |-> FxCall("new", "")]

FixedInsert(item) ==
    /\ fx.insertions < MaxInsertions
    /\ \E r \in FxInsert(fx, item) :
          /\ r.f.kicks <= MaxKickTotal
          /\ fx' = r.f
          /\ fxHist' = [members |-> IF r.result = "true"
                                    THEN fxHist.members \cup {item}
                                    ELSE fxHist.members,
                        net |-> IF r.result = "true" THEN fxHist.net + 1 ELSE fxHist.net,
                        last |-> FxCall("insert", r.result)]
    /\ UNCHANGED <<cf, cfHist, disk, probe, calls>>

FixedLookup(item) ==
    /\ fxHist' = [fxHist EXCEPT !.last = FxCall("lookup", FxLookup(fx, item))]
    /\ UNCHANGED <<fx, cf, cfHist, disk, probe, calls>>

FixedRemove(item) ==
    LET r == FxRemove(fx, item)
    IN  /\ fx' = r.f
        /\ fxHist' = [members |-> IF r.result = "true"
                                  THEN {x \in fxHist.members :
                                          ~ (/\ GenerateFingerprint(fx, x) = GenerateFingerprint(fx, item)
                                             /\ r.from \in FxCandidates(fx, x))}
                                  ELSE fxHist.members,
                      net |-> IF r.result = "true" THEN fxHist.net - 1 ELSE fxHist.net,
                      last |-> FxCall("remove", r.result)]
        /\ UNCHANGED <<cf, cfHist, disk, probe, calls>>

FixedClear ==
    /\ fx' = FxClear(fx)
    /\ fxHist' = [members |-> {}, net |-> 0, last |-> FxCall("clear", "")]
    /\ UNCHANGED <<cf, cfHist, disk, probe, calls>>

\* The history of the resizable filter before any call (see below).
CfCall(op, item, result, resizes, clean, kept) ==
    [op |-> op, item |-> item, result |-> result, resizes |-> resizes,
     clean |-> clean, kept |-> kept]

CfIdle ==
    [members |-> {}, last |-> CfCall("new", "", "", 0, FALSE, {}),
     built |-> 0, saved |-> {}]

\* The values of the variables a specification does not use.
NoFixed == [capacity |-> 0]

NoResizable == [bucketCount |-> 0]

NoDisk == [format |-> "none", content |-> <<>>]

NoProbe == [op |-> "none"]

NoCalls == <<>>

InitFixed ==
    /\ \E capacity \in 1 .. MaxCapacity, bucketSize \in 1 .. MaxBucketSize,
          maxNumKicks \in 0 .. MaxMaxKicks :
          fx = NewFixed(capacity, bucketSize, 8, maxNumKicks)
    /\ fxHist = FxIdle
    /\ cf = NoResizable
    /\ cfHist = CfIdle
    /\ disk = NoDisk
    /\ calls = NoCalls
    /\ probe = NoProbe

NextFixed ==
    \/ \E item \in FxItems \cup Nullish : FixedInsert(item)
    \/ \E item \in FxItems \cup Nullish : FixedLookup(item)
    \/ \E item \in FxItems \cup Nullish : FixedRemove(item)
    \/ FixedClear

SpecFixed == InitFixed /\ [][NextFixed]_vars

\* The slots of the fixed filter that hold a fingerprint.
FxOccupied(f) ==
    {s \in (DOMAIN f.buckets) \X (0 .. (f.bucketSize - 1)) : f.buckets[s[1]][s[2]] # Null}

\* C8: an item whose insert returned true is found by lookup as long as
\* clear was not called and no remove took a fingerprint equal to its own
\* out of one of its candidate buckets.
C8_NoFalseNegativeFixed ==
    \A x \in fxHist.members : FxLookup(fx, x) = "true"

Stored(c) == {Flatten(c.buckets, 0)[k] : k \in 1 .. Len(Flatten(c.buckets, 0))}

HoldsDistinctMembers ==
    /\ Len(Flatten(cf.buckets, 0)) = Cardinality(cfHist.members)
    /\ Stored(cf) = {Fingerprint(cf, x) : x \in cfHist.members}

CfInsert(item) ==
    /\ Len(Flatten(cf.buckets, 0)) <= MaxStored
    /\ \E r \in Insert(cf, item, 0) :
          /\ r.result # "capped"
          /\ cf' = r.c
          /\ cfHist' =
               [cfHist EXCEPT
                  !.members = IF r.result = "true" THEN @ \cup {item} ELSE @,
                  !.last = CfCall("insert", item, r.result, r.resizes,
                                  Fingerprint(cf, item) \notin Stored(cf),
                                  IF HoldsDistinctMembers /\ r.resizes >= 1
                                  THEN {x \in cfHist.members : Contains(cf, x)}
                                  ELSE {})]
    /\ UNCHANGED <<fx, fxHist, disk, probe, calls>>

CfContains(item) ==
    /\ cfHist' = [cfHist EXCEPT
                    !.last = CfCall("contains", "",
                                    IF Contains(cf, item) THEN "true" ELSE "false",
                                    0, FALSE, {})]
    /\ UNCHANGED <<fx, fxHist, cf, disk, probe, calls>>

\* The last call was insert(item), it returned true, and no fingerprint
\* equal to the item's was stored before it.
AfterCleanInsert(item) ==
    /\ cfHist.last.op = "insert"
    /\ cfHist.last.item = item
    /\ cfHist.last.result = "true"
    /\ cfHist.last.clean

CfDelete(item) ==
    LET r == Delete(cf, item)
    IN  /\ cf' = r.c
        /\ cfHist' =
             [cfHist EXCEPT
                !.members = IF r.result = "true"
                            THEN {x \in @ : Fingerprint(cf, x) # Fingerprint(cf, item)}
                            ELSE @,
                !.last = CfCall("delete", IF AfterCleanInsert(item) THEN item ELSE "",
                                r.result, 0, AfterCleanInsert(item), {})]
        /\ UNCHANGED <<fx, fxHist, disk, probe, calls>>

Init ==
    /\ \E logBuckets \in 0 .. 1, bucketSize \in 1 .. MaxBucketSize,
          maxKicks \in 0 .. MaxMaxKicks :
          cf = NewResizable(2 ^ logBuckets, bucketSize, 1, maxKicks)
    /\ cfHist = CfIdle
    /\ fx = NoFixed
    /\ fxHist = FxIdle
    /\ disk = NoDisk
    /\ calls = NoCalls
    /\ probe = NoProbe

Next ==
    \/ \E item \in CfItems : CfInsert(item)
    \/ \E item \in CfItems : CfContains(item)
    \/ \E item \in CfItems : CfDelete(item)

Spec == Init /\ [][Next]_vars

\* C1: once insert(X) has returned true and until a delete removes a
\* fingerprint equal to X's, contains(X) is true.
C1_NoFalseNegative ==
    \A x \in cfHist.members : Contains(cf, x)

\* C2: after an insert that went through a resize, every item that was a
\* member before it (distinct items, pairwise different fingerprints) is
\* still found by contains.
C2_ResizePreservesMembership ==
    (cfHist.last.op = "insert" /\ cfHist.last.resizes >= 1 /\ cfHist.last.result = "true")
        => \A x \in cfHist.last.kept : Contains(cf, x)

\* C5: insert(X) then delete(X), with no fingerprint equal to X's stored
\* before the insert: delete returns true and contains(X) is then false.
C5_InsertDeleteNotContained ==
    (cfHist.last.op = "delete" /\ cfHist.last.clean)
        => (cfHist.last.result = "true" /\ ~Contains(cf, cfHist.last.item))

\* C6: insert never throws; when the kicks are exhausted it resizes and
\* returns true.
C6_InsertNeverThrows ==
    cfHist.last.op = "insert" => cfHist.last.result = "true"

\* C7: one insert call makes at most one resize.
C7_AtMostOneResizePerInsert ==
    cfHist.last.op = "insert" => cfHist.last.resizes <= 1

\* C9: every bucket holds at most bucketSize fingerprints, so the load
\* factor of stats() is at most 1.
C9_BucketsWithinBucketSize ==
    /\ \A i \in DOMAIN cf.buckets : Len(cf.buckets[i]) <= cf.bucketSize
    /\ StatsItems(cf) <= StatsCapacity(cf)

\* An insert has just returned true after kick exhaustion and a resize, and
\* some bucket is full.
C9_Witness ==
    /\ cfHist.last.op = "insert"
    /\ cfHist.last.result = "true"
    /\ cfHist.last.resizes >= 1
    /\ cf.maxKicks >= 1
    /\ \E i \in DOMAIN cf.buckets : Len(cf.buckets[i]) = cf.bucketSize
    /\ StatsItems(cf) >= 2

(***************************************************************************)
(* _altIndex as a function of its inputs: bucketCount is any value the     *)
(* constructor accepts (it checks nothing) or reaches by doubling, index   *)
(* any bucket index, and the first four digest bytes of the fingerprint    *)
(* hash any 32-bit value.                                                  *)
(***************************************************************************)
ProbeHashes ==
    {<<b1, b2, b2, b4>> : b1 \in {0, 127, 128, 255}, b2 \in {0, 255},
                          b4 \in {0, 1, 2, 3, 5, 255}}

InitAlt ==
    /\ \E bucketCount \in 1 .. MaxProbeBuckets, fpHash \in ProbeHashes :
         \E index \in 0 .. (bucketCount - 1) :
            probe = [op |-> "new", bucketCount |-> bucketCount, index |-> index,
                     fpHash |-> fpHash, alt |-> index, back |-> index]
    /\ fx = NoFixed
    /\ fxHist = FxIdle
    /\ cf = NoResizable
    /\ cfHist = CfIdle
    /\ disk = NoDisk
    /\ calls = NoCalls

\* _resize doubles bucketCount (line 493).
ProbeDouble ==
    /\ probe.op = "new"
    /\ 2 * probe.bucketCount <= MaxProbeBuckets
    /\ probe' = [probe EXCEPT !.bucketCount = 2 * @]
    /\ UNCHANGED <<fx, fxHist, cf, cfHist, disk, calls>>

\* alt = _altIndex(fp, index)
ProbeAltIndex ==
    /\ probe.op = "new"
    /\ probe' = [probe EXCEPT
                   !.op = "alt",
                   !.alt = AltIndexOf(probe.index, ReadUInt32AsInt32(probe.fpHash),
                                      probe.bucketCount)]
    /\ UNCHANGED <<fx, fxHist, cf, cfHist, disk, calls>>

\* back = _altIndex(fp, alt)
ProbeAltIndexAgain ==
    /\ probe.op = "alt"
    /\ probe' = [probe EXCEPT
                   !.op = "back",
                   !.back = AltIndexOf(probe.alt, ReadUInt32AsInt32(probe.fpHash),
                                       probe.bucketCount)]
    /\ UNCHANGED <<fx, fxHist, cf, cfHist, disk, calls>>

NextAlt == ProbeDouble \/ ProbeAltIndex \/ ProbeAltIndexAgain

SpecAlt == InitAlt /\ [][NextAlt]_vars

\* C3: _altIndex(fp, _altIndex(fp, i)) = i for every bucketCount, every
\* index i below it and every 32-bit fingerprint hash.
C3_AltIndexInvolution ==
    probe.op = "back" => probe.back = probe.index

(***************************************************************************)
(* The resizable filter with its file: insert and delete as above, save    *)
(* to the file, and a restart that constructs a filter with the options    *)
(* the first one was constructed with and loads the file into it.          *)
(***************************************************************************)
Formats == {"json", "parquet"}

PersistInsert(item) ==
    /\ Len(Flatten(cf.buckets, 0)) < MaxPersisted
    /\ \E r \in Insert(cf, item, 0) :
          /\ r.result # "capped"
          /\ cf' = r.c
          /\ cfHist' = [cfHist EXCEPT
                          !.last = CfCall("insert", "", r.result, 0, FALSE, {})]
    /\ UNCHANGED <<fx, fxHist, disk, probe, calls>>

PersistDelete(item) ==
    LET r == DeleteOutcome(cf, item)
    IN  /\ cf' = r.c
        /\ cfHist' = [cfHist EXCEPT
                        !.last = CfCall("delete", "", r.result, 0, FALSE, {})]
        /\ UNCHANGED <<fx, fxHist, disk, probe, calls>>

\* await F.save(path)
PersistSave(format) ==
    /\ disk' = Save(cf, format)
    /\ cfHist' = [cfHist EXCEPT
                    !.saved = {x \in CfItems : ContainsOutcome(cf, x) = "true"},
                    !.last = CfCall("save", "", "true", 0, FALSE, {})]
    /\ UNCHANGED <<fx, fxHist, cf, probe, calls>>

\* G = new AdvancedCuckooFilter(options); await G.load(path)
PersistRestore ==
    /\ disk.format \in Formats
    /\ LET r == Load(NewResizable(cfHist.built, cf.bucketSize, cf.fingerprintSize,
                                  cf.maxKicks), disk)
       IN  /\ r.result # "capped"
           /\ cf' = r.c
           /\ cfHist' = [cfHist EXCEPT
                           !.last = CfCall("load", "", r.result, 0, FALSE, {})]
    /\ UNCHANGED <<fx, fxHist, disk, probe, calls>>

\* await cf.load(path) on the filter in use; with failing, reading fails
\* after `read` records.
PersistLoad(failing, read) ==
    /\ disk.format \in Formats
    /\ read \in 0 .. Records(disk)
    /\ failing \/ read = Records(disk)
    /\ disk.format = "parquet" =>
          Len(Flatten(cf.buckets, 0)) + read <= MaxPersisted
    /\ LET r == IF failing THEN LoadFailing(cf, disk, read) ELSE Load(cf, disk)
       IN  /\ r.result # "capped"
           /\ cf' = r.c
           /\ cfHist' = [cfHist EXCEPT
                           !.last = CfCall("loadInto", "", r.result, 0, FALSE, {})]
    /\ UNCHANGED <<fx, fxHist, disk, probe, calls>>

InitPersist ==
    /\ \E logBuckets \in 0 .. 1, bucketSize \in 1 .. MaxBucketSize,
          maxKicks \in 0 .. 1 :
          /\ cf = NewResizable(2 ^ logBuckets, bucketSize, 1, maxKicks)
          /\ cfHist = [CfIdle EXCEPT !.built = 2 ^ logBuckets]
    /\ disk = NoDisk
    /\ calls = NoCalls
    /\ fx = NoFixed
    /\ fxHist = FxIdle
    /\ probe = NoProbe

NextPersist ==
    \/ \E item \in CfItems : PersistInsert(item)
    \/ \E item \in CfItems : PersistDelete(item)
    \/ \E format \in Formats : PersistSave(format)
    \/ PersistRestore
    \/ \E failing \in BOOLEAN, read \in 0 .. MaxPersisted : PersistLoad(failing, read)

SpecPersist == InitPersist /\ [][NextPersist]_vars

\* C4: a filter saved in either format and loaded into a freshly
\* constructed filter with the same options answers contains as the saved
\* filter did, for every item.
C4_RestoreAnswersAsSaved ==
    (cfHist.last.op = "load" /\ cfHist.last.result = "true")
        => \A x \in CfItems : Contains(cf, x) <=> x \in cfHist.saved

(***************************************************************************)
(* The two constructors as functions of their size arguments, which are    *)
(* any integers: non-positive ones, small ones, and for the capacity of    *)
(* the fixed filter values around powers of two up to 2^30.                *)
(***************************************************************************)
\* Whether the constructor of the fixed filter throws, lines 15-38: the
\* test of line 16 on capacity, and new Array(bucketSize) of line 32, a
\* RangeError for a negative length (the loop runs, capacity being >= 1).
FixedConstructorThrows(capacity, bucketSize) ==
    capacity <= 0 \/ bucketSize < 0

\* Whether the constructor of the resizable filter throws, lines 352-370:
\* it tests nothing, and Array.from({ length: n }) takes a negative n as 0.
ResizableConstructorThrows(bucketCount, bucketSize, fingerprintSize) == FALSE

ProbeSizes == (0 - 1) .. MaxProbeSize

ProbeCapacities ==
    ProbeSizes \cup {(2 ^ k) + d : k \in {8, 16, 24, 29}, d \in {0 - 1, 0, 1}}
               \cup {(2 ^ 30) - 1, 2 ^ 30}

InitNew ==
    /\ \E class \in {"fixed", "resizable"}, count \in ProbeCapacities,
          bucketSize \in ProbeSizes, fingerprint \in ProbeSizes :
          /\ class = "resizable" => count \in ProbeSizes
          /\ probe = [op |-> "args", class |-> class, count |-> count,
                      bucketSize |-> bucketSize, fingerprint |-> fingerprint,
                      result |-> "", capacity |-> 0]
    /\ fx = NoFixed
    /\ fxHist = FxIdle
    /\ cf = NoResizable
    /\ cfHist = CfIdle
    /\ disk = NoDisk
    /\ calls = NoCalls

\* new AdvancedCuckooFilter(capacity, bucketSize, fingerprintBits)
ProbeNewFixed ==
    /\ probe.op = "args"
    /\ probe.class = "fixed"
    /\ probe' = IF FixedConstructorThrows(probe.count, probe.bucketSize)
                THEN [probe EXCEPT !.op = "new", !.result = "throw"]
                ELSE [probe EXCEPT !.op = "new", !.result = "built",
                                   !.capacity = NextPowerOf2(probe.count)]
    /\ UNCHANGED <<fx, fxHist, cf, cfHist, disk, calls>>

\* new AdvancedCuckooFilter({ bucketCount, bucketSize, fingerprintSize })
ProbeNewResizable ==
    /\ probe.op = "args"
    /\ probe.class = "resizable"
    /\ probe' = IF ResizableConstructorThrows(probe.count, probe.bucketSize,
                                              probe.fingerprint)
                THEN [probe EXCEPT !.op = "new", !.result = "throw"]
                ELSE [probe EXCEPT !.op = "new", !.result = "built"]
    /\ UNCHANGED <<fx, fxHist, cf, cfHist, disk, calls>>

NextNew == ProbeNewFixed \/ ProbeNewResizable

SpecNew == InitNew /\ [][NextNew]_vars

\* C11: construction throws whenever one of the size arguments (capacity,
\* bucketSize, fingerprintBits; bucketCount, bucketSize, fingerprintSize)
\* is zero or negative.
C11_NonPositiveSizeRejected ==
    (/\ probe.op = "new"
     /\ (probe.count <= 0 \/ probe.bucketSize <= 0 \/ probe.fingerprint <= 0))
        => probe.result = "throw"

\* C12: a load that fails, also after some records were read, leaves
\* buckets and bucketCount as they were before the call.
C12_FailedLoadChangesNothing ==
    [][(cfHist'.last.op = "loadInto" /\ cfHist'.last.result = "throw")
          => (cf'.buckets = cf.buckets /\ cf'.bucketCount = cf.bucketCount)]_vars

\* C13: when _resize throws 'Resize failed', bucketCount and every bucket
\* are as they were when _resize was entered.
C13_FailedResizeChangesNothing ==
    [][\A item \in CfItems : \A r \in Insert(cf, item, 0) :
          (/\ cfHist'.last.op = "insert"
           /\ cfHist'.last.result = "throw"
           /\ r.result = "throw"
           /\ r.entered.bucketCount # 0
           /\ cf' = r.c)
             => (/\ cf'.bucketCount = r.entered.bucketCount
                 /\ cf'.buckets = r.entered.buckets)]_vars

\* C14: in every state reached by insert, delete, save and load of the
\* filter's own files, contains and delete throw for no item, and answer
\* false for an item whose fingerprint is in neither of its buckets.
C14_ContainsAndDeleteNeverThrow ==
    \A x \in CfItems :
        /\ ContainsOutcome(cf, x) # "throw"
        /\ DeleteOutcome(cf, x).result # "throw"
        /\ (\A i \in {Index(cf, x), AltIndex(cf, Fingerprint(cf, x), Index(cf, x))} :
               \A k \in DOMAIN cf.buckets[i] : cf.buckets[i][k] # Fingerprint(cf, x))
              => (ContainsOutcome(cf, x) = "false" /\ DeleteOutcome(cf, x).result = "false")

(***************************************************************************)
(* The capacity of the fixed filter: the constructor as a function of its  *)
(* arguments (capacities up to 2^30, for which no buckets are built here)  *)
(* together with the filter's operations on the filters of SpecFixed.      *)
(***************************************************************************)
InitCapacity ==
    \/ InitFixed
    \/ (InitNew /\ probe.class = "fixed")

NextCapacity ==
    \/ ProbeNewFixed
    \/ (fx.capacity > 0 /\ NextFixed)

SpecCapacity == InitCapacity /\ [][NextCapacity]_vars

\* p is the smallest power of two that is >= c.
IsSmallestPowerOf2AtLeast(p, c) ==
    \E k \in 0 .. 30 : p = 2 ^ k /\ p >= c /\ (k > 0 => 2 ^ (k - 1) < c)

IdleCall ==
    [pc |-> "idle", op |-> "", lost |-> FALSE, frozen |-> FALSE, snap |-> <<>>,
     bi |-> 0, k |-> 0, rows |-> <<>>]

\* The call as it is suspended at await openFile.
OpeningCall(op, lost) == [IdleCall EXCEPT !.pc = "open", !.op = op, !.lost = lost]

\* How many times fp occurs in a list of fingerprints.
Count(fps, fp) == Cardinality({j \in 1 .. Len(fps) : fps[j] = fp})

\* Some fingerprint is stored fewer times in after than in before.
LosesFingerprint(before, after) ==
    \E j \in 1 .. Len(Flatten(before.buckets, 0)) :
        Count(Flatten(after.buckets, 0), Flatten(before.buckets, 0)[j])
            < Count(Flatten(before.buckets, 0), Flatten(before.buckets, 0)[j])

\* The next step of the two for-of loops of saveToParquet over the array
\* arr, standing on bucket bi with k fingerprints taken from it.
RECURSIVE NextRow(_, _, _)
NextRow(arr, bi, k) ==
    IF bi \notin DOMAIN arr THEN [done |-> TRUE, bi |-> bi, k |-> k, fp |-> <<>>]
    ELSE IF k < Len(arr[bi])
    THEN [done |-> FALSE, bi |-> bi, k |-> k + 1, fp |-> arr[bi][k + 1]]
    ELSE NextRow(arr, bi + 1, 0)

\* The call after the step of the loops that follows (bi, k) in arr.
Advance(call, arr) ==
    LET n == NextRow(arr, call.bi, call.k)
    IN  IF n.done THEN [call EXCEPT !.pc = "close", !.frozen = FALSE, !.snap = <<>>,
                                     !.bi = 0, !.k = 0]
        ELSE [call EXCEPT !.pc = "rows", !.bi = n.bi, !.k = n.k,
                          !.rows = Append(@, n.fp)]

\* this.buckets has been replaced by a _resize: the loops that were
\* iterating it go on over the array they hold.
Freeze(call, old) ==
    IF call.pc = "rows" /\ ~call.frozen
    THEN [call EXCEPT !.frozen = TRUE, !.snap = old]
    ELSE call

\* insert(item) up to its first await, lines 424-446 and 450-452.
AsyncInsertStep(p, item) ==
    /\ calls[p].pc = "idle"
    /\ Len(Flatten(cf.buckets, 0)) < MaxPersisted
    /\ \E r \in Insert(cf, item, 0) :
          /\ r.result # "capped"
          /\ cf' = r.c
          /\ calls' = [q \in DOMAIN calls |->
                         IF q = p
                         THEN IF r.result = "true"
                              THEN OpeningCall("insert", LosesFingerprint(cf, r.c))
                              ELSE IdleCall
                         ELSE IF r.resizes >= 1 THEN Freeze(calls[q], r.old)
                         ELSE calls[q]]
    /\ UNCHANGED <<fx, fxHist, cfHist, disk>>

\* delete(item) up to its first await, lines 465-489.
AsyncDeleteStep(p, item) ==
    /\ calls[p].pc = "idle"
    /\ cf' = Delete(cf, item).c
    /\ calls' = [calls EXCEPT ![p] = IF Delete(cf, item).result = "true"
                                     THEN OpeningCall("delete", FALSE)
                                     ELSE IdleCall]
    /\ UNCHANGED <<fx, fxHist, cfHist, disk>>

\* saveToParquet resumed after openFile, lines 523-526.
SaveOpenedStep(p) ==
    /\ calls[p].pc = "open"
    /\ calls' = [calls EXCEPT ![p] = Advance(@, cf.buckets)]
    /\ UNCHANGED <<fx, fxHist, cf, cfHist, disk>>

\* saveToParquet resumed after appendRow, lines 524-529.
SaveAppendedStep(p) ==
    /\ calls[p].pc = "rows"
    /\ calls' = [calls EXCEPT
                   ![p] = Advance(@, IF @.frozen THEN @.snap ELSE cf.buckets)]
    /\ UNCHANGED <<fx, fxHist, cf, cfHist, disk>>

\* saveToParquet resumed after writer.close(): the file holds the rows, and
\* the insert or delete that awaited save returns true.
SaveClosedStep(p) ==
    /\ calls[p].pc = "close"
    /\ disk' = [format |-> "parquet", content |-> calls[p].rows]
    /\ calls' = [calls EXCEPT ![p] = IdleCall]
    /\ UNCHANGED <<fx, fxHist, cf, cfHist>>

\* The steps of the calls where nothing else is recorded.
AsyncInsert(p, item) == AsyncInsertStep(p, item) /\ UNCHANGED probe

AsyncDelete(p, item) == AsyncDeleteStep(p, item) /\ UNCHANGED probe

SaveOpened(p) == SaveOpenedStep(p) /\ UNCHANGED probe

SaveAppended(p) == SaveAppendedStep(p) /\ UNCHANGED probe

SaveClosed(p) == SaveClosedStep(p) /\ UNCHANGED probe

InitAsync ==
    /\ \E logBuckets \in 0 .. 1, bucketSize \in 1 .. MaxBucketSize,
          maxKicks \in 0 .. 1 :
          cf = NewResizable(2 ^ logBuckets, bucketSize, 1, maxKicks)
    /\ cfHist = CfIdle
    /\ calls = [p \in 1 .. MaxCalls |-> IdleCall]
    /\ disk = NoDisk
    /\ fx = NoFixed
    /\ fxHist = FxIdle
    /\ probe = NoProbe

NextAsync ==
    \/ \E p \in DOMAIN calls, item \in CfItems : AsyncInsert(p, item)
    \/ \E p \in DOMAIN calls, item \in CfItems : AsyncDelete(p, item)
    \/ \E p \in DOMAIN calls : SaveOpened(p)
    \/ \E p \in DOMAIN calls : SaveAppended(p)
    \/ \E p \in DOMAIN calls : SaveClosed(p)

SpecAsync == InitAsync /\ [][NextAsync]_vars

\* C16: wherever a call is suspended, buckets.length is bucketCount, no
\* bucket holds more than bucketSize fingerprints, and every fingerprint an
\* insert in flight took out of a bucket is stored in a bucket.
C16_SuspendedCallsSeeWholeBuckets ==
    /\ Cardinality(DOMAIN cf.buckets) = cf.bucketCount
    /\ \A i \in DOMAIN cf.buckets : Len(cf.buckets[i]) <= cf.bucketSize
    /\ \A p \in DOMAIN calls :
          (calls[p].pc # "idle" /\ calls[p].op = "insert") => ~calls[p].lost

\* C17: after clear() every slot is empty, size, insertions and kicks are
\* 0, lookup returns false for every item, and capacity and bucketSize are
\* what they were before the call.
C17_ClearEmptiesTheFilter ==
    /\ [](fxHist.last.op = "clear" =>
            /\ FxOccupied(fx) = {}
            /\ fx.size = 0
            /\ fx.insertions = 0
            /\ fx.kicks = 0
            /\ \A x \in FxItems : FxLookup(fx, x) = "false")
    /\ [][fxHist'.last.op = "clear" =>
            (fx'.capacity = fx.capacity /\ fx'.bucketSize = fx.bucketSize)]_vars

\* C18: at every reachable state of the fixed filter, insert of null or of
\* undefined throws its Error and leaves buckets, size, insertions and kicks as
\* they were, and lookup and remove of null or of undefined return false and
\* leave the state as it was.
C18_NullishItemsRejected ==
    \A item \in Nullish :
        /\ FxInsert(fx, item) = {FxResult(fx, NullishError)}
        /\ FxLookup(fx, item) = "false"
        /\ FxRemove(fx, item).result = "false"
        /\ FxRemove(fx, item).f = fx
        /\ fxHist.last.result = NullishError => fxHist.last.op = "insert"

\* insert(null) has just thrown on a filter that holds fingerprints, after
\* evictions took place.
C18_Witness ==
    /\ fxHist.last = FxCall("insert", NullishError)
    /\ fx.size > 0
    /\ fx.kicks > 0

\* ---------------------------------------------------------------------
\* The retry of insert, step by step: one pass over lines 425-448 (direct
\* placement and the kicking loop), then _resize and the call of insert
\* again (lines 450-452), until a pass places the fingerprint or something
\* throws.  Fingerprints are two bytes long here, and one of the items,
\* '538f', is the hex text of its own fingerprint 0x538f, so that _index
\* gives the item and its stored fingerprints the same bucket at every
\* bucketCount.
\* ---------------------------------------------------------------------
MaxRetryStored == 4

RetryFingerprintSize == 2

RetryItems == {"538f", "grape"}

\* The 32-bit words the indices of an item and of its fingerprint are taken
\* from: digest.readUInt32BE(0) for the item and for the hex text of its
\* fingerprint (_index), and each of them xor the word of _altIndex.
Words(item) ==
    LET fp == SubSeq(Digest(item, 0), 1, RetryFingerprintSize)
        a == ReadUInt32AsInt32(Digest(item, 0))
        b == ReadUInt32AsInt32(Digest(ToHex(fp), 0))
        g == ReadUInt32AsInt32(Digest(ToHex(fp), 1))
    IN  {a, Xor32(a, g), b, Xor32(b, g)}

\* Two of these words that differ at all differ in their low MaxLogBuckets
\* bits.  With a power of two as bucketCount an index is the low bits of its
\* word, so from 2^MaxLogBuckets buckets on a doubling moves no fingerprint
\* to or away from another one: the filter with 2^m buckets, m above
\* MaxLogBuckets, is the filter with 2^MaxLogBuckets buckets under a
\* renaming of the bucket indices, and the latter stands for all of them.
StableBeyondBound ==
    \A u \in UNION {Words(x) : x \in RetryItems} :
        \A v \in UNION {Words(x) : x \in RetryItems} :
            u = v \/ (u % (2 ^ MaxLogBuckets)) # (v % (2 ^ MaxLogBuckets))

\* _resize(), lines 491-504, with the bucket counts from 2^MaxLogBuckets on
\* represented by 2^MaxLogBuckets.
ResizeBeyondBound(c) ==
    IF 2 * c.bucketCount <= 2 ^ MaxLogBuckets THEN Resize(c)
    ELSE Reseat([c EXCEPT !.buckets = EmptyBuckets(c.bucketCount)],
                Flatten(c.buckets, 0), 1)

\* One pass of insert over lines 425-448: the object after it and how the
\* pass ended ("placed", "throw", or "exhausted" when line 450 is reached).
Attempt(c, item) ==
    LET fp == Fingerprint(c, item)
        i1 == Index(c, item)
        i2 == AltIndex(c, fp, i1)
    IN  IF TryInsertOk(c, i1) THEN {[c |-> TryInsert(c, i1, fp), end |-> "placed"]}
        ELSE IF TryInsertOk(c, i2) THEN {[c |-> TryInsert(c, i2, fp), end |-> "placed"]}
        ELSE UNION {Kick(c, index, fp, 0) : index \in {i1, i2}}

RetryIdle == [pc |-> "idle", item |-> "", result |-> ""]

\* insert(item) is called.
RetryCall(item) ==
    /\ probe.pc = "idle"
    /\ Len(Flatten(cf.buckets, 0)) <= MaxRetryStored
    /\ probe' = [pc |-> "attempt", item |-> item, result |-> ""]
    /\ UNCHANGED <<fx, fxHist, cf, cfHist, disk, calls>>

\* Lines 425-448 run; the call returns true, throws, or goes on to line 450.
RetryAttempt ==
    /\ probe.pc = "attempt"
    /\ \E k \in Attempt(cf, probe.item) :
          /\ cf' = k.c
          /\ probe' = IF k.end = "exhausted" THEN [probe EXCEPT !.pc = "resize"]
                      ELSE [probe EXCEPT !.pc = "idle",
                                         !.result = IF k.end = "placed" THEN "true"
                                                    ELSE "throw"]
    /\ UNCHANGED <<fx, fxHist, cfHist, disk, calls>>

\* Lines 450-452: _resize, then insert(item) again unless _resize threw.
RetryResize ==
    /\ probe.pc = "resize"
    /\ cf' = ResizeBeyondBound(cf).c
    /\ probe' = IF ResizeBeyondBound(cf).thrown
                THEN [probe EXCEPT !.pc = "idle", !.result = "throw"]
                ELSE [probe EXCEPT !.pc = "attempt"]
    /\ UNCHANGED <<fx, fxHist, cfHist, disk, calls>>

\* delete(item) between two calls of insert.
RetryDelete(item) ==
    /\ probe.pc = "idle"
    /\ cf' = Delete(cf, item).c
    /\ probe' = RetryIdle
    /\ UNCHANGED <<fx, fxHist, cfHist, disk, calls>>

InitRetry ==
    /\ StableBeyondBound
    /\ \E logBuckets \in 0 .. MaxLogBuckets, bucketSize \in 1 .. MaxBucketSize,
          maxKicks \in 0 .. MaxMaxKicks :
          cf = NewResizable(2 ^ logBuckets, bucketSize, RetryFingerprintSize, maxKicks)
    /\ probe = RetryIdle
    /\ cfHist = CfIdle
    /\ fx = NoFixed
    /\ fxHist = FxIdle
    /\ disk = NoDisk
    /\ calls = NoCalls

NextRetry ==
    \/ \E item \in RetryItems : RetryCall(item)
    \/ RetryAttempt
    \/ RetryResize
    \/ \E item \in RetryItems : RetryDelete(item)

\* The running call moves on from the place pc: it is what RetryAttempt
\* does at "attempt" and what RetryResize does at "resize", the only steps
\* of NextRetry that are possible there, and both are possible whenever the
\* call is there.
Proceeds(pc) ==
    /\ probe.pc = pc
    /\ \E to \in {"idle", "attempt", "resize"} \ {pc}, result \in {"", "true", "throw"} :
          probe' = [probe EXCEPT !.pc = to, !.result = result]

\* insert runs to completion without yielding (autoPersist is off), so a
\* call that has started takes its next step.
SpecRetry ==
    InitRetry /\ [][NextRetry]_vars
    /\ WF_probe(Proceeds("attempt")) /\ WF_probe(Proceeds("resize"))

HookCall(onResize, op, doubled, called, result) ==
    [onResize |-> onResize, op |-> op, doubled |-> doubled, called |-> called,
     result |-> result]

\* <<2 * from, 4 * from, ..., to>>
Doublings(from, to) ==
    LET n == CHOOSE m \in 0 .. MaxLogBuckets + 1 : from * (2 ^ m) = to
    IN  [i \in 1 .. n |-> from * (2 ^ i)]

\* The invocations of onResize by loadFromParquet, lines 532-548: line 541
\* calls _resize and line 542 goes on placing the record; no line of the
\* method refers to this.hooks.
ParquetHookCalls(c, rows) == <<>>

\* setHooks({ onResize }) with a function or with undefined, lines 386-388.
HookSet(onResize) ==
    /\ probe' = HookCall(onResize, "setHooks", <<>>, <<>>, "true")
    /\ UNCHANGED <<fx, fxHist, cf, cfHist, disk, calls>>

HookInsert(item) ==
    /\ Len(Flatten(cf.buckets, 0)) <= MaxStored
    /\ \E r \in Insert(cf, item, 0) :
          /\ r.result # "capped"
          /\ cf' = r.c
          /\ probe' = HookCall(probe.onResize, "insert",
                               Doublings(cf.bucketCount, r.c.bucketCount),
                               IF probe.onResize THEN r.hooked ELSE <<>>,
                               r.result)
    /\ UNCHANGED <<fx, fxHist, cfHist, disk, calls>>

HookSave ==
    /\ disk' = Save(cf, "parquet")
    /\ probe' = HookCall(probe.onResize, "save", <<>>, <<>>, "true")
    /\ UNCHANGED <<fx, fxHist, cf, cfHist, calls>>

\* await this.load(path) of the file last saved.
HookLoad ==
    /\ disk.format = "parquet"
    /\ Len(Flatten(cf.buckets, 0)) + Len(disk.content) <= MaxStored + 1
    /\ Load(cf, disk).result # "capped"
    /\ cf' = Load(cf, disk).c
    /\ probe' = HookCall(probe.onResize, "load",
                         Doublings(cf.bucketCount, Load(cf, disk).c.bucketCount),
                         IF probe.onResize THEN ParquetHookCalls(cf, disk.content)
                         ELSE <<>>,
                         Load(cf, disk).result)
    /\ UNCHANGED <<fx, fxHist, cfHist, disk, calls>>

InitHooks ==
    /\ \E logBuckets \in 0 .. 1, bucketSize \in 1 .. MaxBucketSize,
          maxKicks \in 0 .. MaxMaxKicks :
          cf = NewResizable(2 ^ logBuckets, bucketSize, 1, maxKicks)
    /\ probe = HookCall(FALSE, "new", <<>>, <<>>, "")
    /\ cfHist = CfIdle
    /\ fx = NoFixed
    /\ fxHist = FxIdle
    /\ disk = NoDisk
    /\ calls = NoCalls

NextHooks ==
    \/ \E onResize \in BOOLEAN : HookSet(onResize)
    \/ \E item \in CfItems : HookInsert(item)
    \/ HookSave
    \/ HookLoad

SpecHooks == InitHooks /\ [][NextHooks]_vars

\* C20: in every call of insert or load, each doubling of bucketCount is
\* followed by one invocation of the registered onResize hook with the new
\* bucketCount, in order; with no hook registered nothing is invoked and the
\* resize raises no error of its own.
C20_OnResizeOncePerResize ==
    /\ probe.onResize => probe.called = probe.doubled
    /\ ~probe.onResize => probe.called = <<>>

\* C21: a call of insert of the resizable filter that returns true leaves
\* every fingerprint stored as many times as before, and the fingerprint of
\* the inserted item once more; and no call other than delete leaves a
\* fingerprint stored fewer times than before.
C21_InsertAddsOneFingerprint ==
    [][/\ (cfHist'.last.op = "insert" /\ cfHist'.last.result = "true") =>
            \A fp \in Stored(cf) \cup Stored(cf')
                        \cup {Fingerprint(cf, cfHist'.last.item)} :
                Count(Flatten(cf'.buckets, 0), fp)
                    = Count(Flatten(cf.buckets, 0), fp)
                        + (IF fp = Fingerprint(cf, cfHist'.last.item) THEN 1 ELSE 0)
       /\ cfHist'.last.op # "delete" => ~LosesFingerprint(cf, cf')]_vars

\* C22: a call of insert of the fixed-capacity filter that returns false
\* leaves every bucket and size as they were before the call.
C22_RejectedInsertChangesNothing ==
    [][fxHist'.last = FxCall("insert", "false") =>
          /\ fx'.buckets = fx.buckets
          /\ fx'.size = fx.size]_vars

\* C23: in the fixed-capacity filter _getSecondBucketIndex(i, fp) is an
\* index in 0 .. capacity - 1 for every bucket index i and every fingerprint
\* fp of an item, and no call of insert, lookup or remove ends in the
\* TypeError of reading a bucket that does not exist.
C23_SecondIndexWithinCapacity ==
    /\ \A i \in 0 .. (fx.capacity - 1) : \A item \in FxItems :
          GetSecondBucketIndex(fx, i, GenerateFingerprint(fx, item))
              \in 0 .. (fx.capacity - 1)
    /\ fxHist.last.result # "throw"

\* ---------------------------------------------------------------------
\* The calls of SpecAsync with a record of what the filter held while call
\* 1 was in saveToParquet: probe.seen are the bucket contents, in bucket
\* order, that the filter has had since call 1 entered saveToParquet and
\* that begin with the rows the call has written so far (rows are only
\* appended, so the others can no longer equal them).
\* ---------------------------------------------------------------------
IsPrefix(rows, fps) ==
    Len(rows) <= Len(fps) /\ SubSeq(fps, 1, Len(rows)) = rows

Track ==
    probe' = [seen |->
                IF calls'[1].pc = "idle" THEN {}
                ELSE {fps \in (IF calls[1].pc = "idle" THEN {} ELSE probe.seen)
                                \cup {Flatten(cf'.buckets, 0)} :
                         IsPrefix(calls'[1].rows, fps)}]

SnapInsert(p, item) == AsyncInsertStep(p, item) /\ Track

SnapDelete(p, item) == AsyncDeleteStep(p, item) /\ Track

SnapOpened(p) == SaveOpenedStep(p) /\ Track

SnapAppended(p) == SaveAppendedStep(p) /\ Track

SnapClosed(p) == SaveClosedStep(p) /\ Track

InitSnap ==
    /\ \E logBuckets \in 0 .. 1, bucketSize \in 1 .. MaxBucketSize,
          maxKicks \in 0 .. 1 :
          cf = NewResizable(2 ^ logBuckets, bucketSize, 1, maxKicks)
    /\ cfHist = CfIdle
    /\ calls = [p \in 1 .. MaxCalls |-> IdleCall]
    /\ disk = NoDisk
    /\ fx = NoFixed
    /\ fxHist = FxIdle
    /\ probe = [seen |-> {}]

NextSnap ==
    \/ \E p \in DOMAIN calls, item \in CfItems : SnapInsert(p, item)
    \/ \E p \in DOMAIN calls, item \in CfItems : SnapDelete(p, item)
    \/ \E p \in DOMAIN calls : SnapOpened(p)
    \/ \E p \in DOMAIN calls : SnapAppended(p)
    \/ \E p \in DOMAIN calls : SnapClosed(p)

SpecSnap == InitSnap /\ [][NextSnap]_vars

\* C24: when a call of saveToParquet closes its file, the rows it has
\* written are the bucket contents, in bucket order, that the filter had at
\* one instant since the call began.
C24_SavedRowsAreOneSnapshot ==
    [][(calls[1].pc = "close" /\ calls'[1].pc = "idle") =>
          calls[1].rows \in probe.seen]_vars

====
